---- MODULE Spec2Model ----
(***************************************************************************)
(* A model of litterbug: the occupancy Map (map.py) and the vision scan    *)
(* of the Litterbug node (litterbug.py).                                   *)
(*                                                                         *)
(* Metric coordinates and the resolution are reals in the source; here     *)
(* they are integers counted in a common unit, so (x - ox) / resolution is *)
(* an exact rational and int() and floor() differ exactly where they       *)
(* differ in Python.  Probabilities are counted in steps of 1/ProbScale.   *)
(*                                                                         *)
(* A Python object is a record whose fields are the attributes the         *)
(* constructor sets; reading an attribute the object does not have raises  *)
(* AttributeError, as it does in Python.  A call's result is a record      *)
(* [exc, ...]: exc = "none" when the call returns, else the exception.     *)
(***************************************************************************)
EXTENDS Integers, Sequences, FiniteSets, TLC

VARIABLES
    map,            \* the Map object queried (SpecMap)
    losArgs,        \* the last line_of_sight call: its two metric points
    losResult,      \* ... and what it did
    loadArgs,       \* the last Map.From_Map call: its inputs (SpecLoad)
    loadResult,     \* ... and what it did
    config,         \* the Litterbug node's vision parameters and callback
    robot_location,     \* Litterbug.__robot_location
    robot_orientation,  \* Litterbug.__robot_orientation
    items,          \* Litterbug.__items: the registry, a dict in insertion order
    item_types,     \* Litterbug.__item_types
    tick,           \* the last vision_scan: what it read and what it did
    scanIn,         \* the last decision on one scanned Item: its inputs (SpecScan)
    scanOut,        \* ... and what it did
    inventory,      \* Litterbug.__inventory
    ghost,          \* the running call of __ghost_positives (SpecGhost)
    timer,          \* the timer of line 94, as the executor sees it (SpecRun)
    pc,             \* the line the running vision_scan is at, or "idle"
    frame,          \* the locals of the running vision_scan
    pose_lock,      \* Litterbug.__robot_pose_lock: who holds it (SpecPose)
    odom,           \* the running __odom_callback: its line and its message
    reader,         \* the running get_robot_pose of another thread
    last_msg,       \* the pose of the last message __odom_callback has stored
    mergeIn,        \* the last __merge_setting call: its inputs (SpecMerge)
    mergeOut        \* ... and what it did

mapVars == <<map, losArgs, losResult>>
loadVars == <<loadArgs, loadResult>>
nodeVars == <<config, robot_location, robot_orientation, items, item_types,
              inventory, tick>>
scanVars == <<scanIn, scanOut>>
ghostVars == <<ghost>>
runVars == <<timer, pc, frame>>
poseVars == <<pose_lock, odom, reader, last_msg>>
mergeVars == <<mergeIn, mergeOut>>

vars == <<mapVars, loadVars, nodeVars, scanVars, ghostVars, runVars,
          poseVars, mergeVars>>

----------------------------------------------------------------------------
(* Bounds of the model *)

GridW == 2          \* columns of a raster
GridH == 2          \* rows of a raster
MaxCoord == 3       \* metric coordinates range over -1 .. MaxCoord
ProbScale == 2      \* probabilities and draws are counted in steps of 1/ProbScale
MaxItems == 2       \* entries the registry holds at most
MaxSamples == 2     \* positions one ghost attempt-cycle is followed over

(* map.py's constants *)
OCCUPIED == 1
UNKNOWN == -1
FREE == 0
OCCUPIED_PGM == 0
UNKNOWN_PGM == 205
FREE_PGM == 254

----------------------------------------------------------------------------
(* Python values and results *)

PyNone == [t |-> "None"]
PyNum(v) == [t |-> "num", v |-> v]
PyDict(d) == [t |-> "dict", d |-> d]
PyList(s) == [t |-> "list", v |-> s]

Ok(v) == [exc |-> "none", val |-> v]
Raise(e) == [exc |-> e, val |-> PyNone]

\* obj[key] for a string key: only a dict can be subscripted by a string
GetItem(obj, key) ==
    IF obj.t = "dict"
    THEN IF key \in DOMAIN obj.d THEN Ok(obj.d[key]) ELSE Raise("KeyError")
    ELSE Raise("TypeError")

\* getattr: the attributes of an object are the fields of its record
HasAttr(obj, name) == name \in DOMAIN obj

\* int(num / den) for den > 0: Python's int() truncates toward zero
PyInt(num, den) == IF num >= 0 THEN num \div den ELSE -((-num) \div den)

\* an ndarray of two dimensions: shape = <<rows, columns>>, data[<<row, col>>]
NdArray(h, w, cells) == [shape |-> <<h, w>>, data |-> cells]

Indices(h, w) == (0 .. h - 1) \X (0 .. w - 1)

Arrays(h, w, values) == { NdArray(h, w, c) : c \in [Indices(h, w) -> values] }

\* arr[row, col]: a negative index counts from the end, any other index
\* outside the shape raises IndexError
NdIndex(arr, row, col) ==
    LET h == arr.shape[1]
        w == arr.shape[2]
    IN  IF row < -h \/ row >= h \/ col < -w \/ col >= w
        THEN Raise("IndexError")
        ELSE Ok(arr.data[<<(IF row < 0 THEN row + h ELSE row),
                           (IF col < 0 THEN col + w ELSE col)>>])

----------------------------------------------------------------------------
(* litterbug.brensenham.define_line: the module is not among the sources;  *)
(* modelled from the design's contract of the line rasterizer: an integer  *)
(* error-accumulating walk over all octants, from origin to target, whose  *)
(* reversal is the walk of the reversed segment.                           *)

RECURSIVE bresenham_walk(_, _, _, _, _, _, _, _, _)
bresenham_walk(x, y, x1, y1, dx, dy, sx, sy, err) ==
    IF x = x1 /\ y = y1
    THEN << <<x, y>> >>
    ELSE LET e2 == 2 * err
             stepx == e2 > -dy
             stepy == e2 < dx
         IN  << <<x, y>> >> \o
             bresenham_walk(IF stepx THEN x + sx ELSE x,
                            IF stepy THEN y + sy ELSE y,
                            x1, y1, dx, dy, sx, sy,
                            err - (IF stepx THEN dy ELSE 0)
                                + (IF stepy THEN dx ELSE 0))

Abs(n) == IF n < 0 THEN -n ELSE n

Reverse(s) == [i \in 1 .. Len(s) |-> s[Len(s) + 1 - i]]

bresenham_from(x0, y0, x1, y1) ==
    bresenham_walk(x0, y0, x1, y1, Abs(x1 - x0), Abs(y1 - y0),
                   IF x0 < x1 THEN 1 ELSE -1, IF y0 < y1 THEN 1 ELSE -1,
                   Abs(x1 - x0) - Abs(y1 - y0))

define_line(x0, y0, x1, y1) ==
    IF x0 < x1 \/ (x0 = x1 /\ y0 <= y1)
    THEN bresenham_from(x0, y0, x1, y1)
    ELSE Reverse(bresenham_from(x1, y1, x0, y0))

----------------------------------------------------------------------------
(* map.py: class Map *)

\* Map.__init__: the attributes a Map has are map, resolution and origin
MapInit(arr, resolution, origin) ==
    [map |-> arr, resolution |-> resolution, origin |-> origin]

\* Map.__meter_to_pixel_coordinates: reads self.point and
\* self.__resolution (the attribute _Map__resolution), which __init__ never
\* sets; the arithmetic is int(), not floor
meter_to_pixel_coordinates(self, point) ==
    IF ~HasAttr(self, "point") \/ ~HasAttr(self, "_Map__resolution")
    THEN [exc |-> "AttributeError", col |-> 0, row |-> 0]
    ELSE [exc |-> "none",
          col |-> PyInt(point[1] - self.point[1], self._Map__resolution),
          row |-> self.map.shape[1]
                  - PyInt(point[2] - self.point[2], self._Map__resolution)]

\* the loop of line_of_sight over the cells, from cell number i on
RECURSIVE scan_cells(_, _, _)
scan_cells(self, cells, i) ==
    IF i > Len(cells)
    THEN [exc |-> "none", ret |-> TRUE]
    ELSE LET c == NdIndex(self.map, cells[i][2], cells[i][1])
         IN  IF c.exc # "none" THEN [exc |-> c.exc, ret |-> FALSE]
             ELSE IF c.val = OCCUPIED THEN [exc |-> "none", ret |-> FALSE]
             ELSE scan_cells(self, cells, i + 1)

\* Map.line_of_sight
line_of_sight(self, origin, target) ==
    LET o == meter_to_pixel_coordinates(self, origin)
        t == meter_to_pixel_coordinates(self, target)
    IN  IF o.exc # "none" THEN [exc |-> o.exc, ret |-> FALSE]
        ELSE IF t.exc # "none" THEN [exc |-> t.exc, ret |-> FALSE]
        ELSE scan_cells(self, define_line(o.col, o.row, t.col, t.row), 1)

----------------------------------------------------------------------------
(* map.py: Map.From_Map *)

\* the three np.where passes of From_Map over one cell, in their order
pgm_to_state(v) ==
    LET a == IF v = OCCUPIED_PGM THEN OCCUPIED ELSE v
        b == IF a = FREE_PGM THEN FREE ELSE a
    IN  IF b = UNKNOWN_PGM THEN UNKNOWN ELSE b

convert_raster(arr) ==
    [arr EXCEPT !.data = [ix \in DOMAIN arr.data |-> pgm_to_state(arr.data[ix])]]

NoMap == [none |-> TRUE]

\* the lookup of the resolution: lines 67-71
resolve_resolution(resolution, data) ==
    IF resolution # PyNone THEN [exc |-> "none", val |-> resolution, missing |-> <<>>]
    ELSE LET r == GetItem(data, "resolution")
         IN  IF r.exc = "none" THEN [exc |-> "none", val |-> r.val, missing |-> <<>>]
             ELSE IF r.exc = "KeyError"
             THEN [exc |-> "none", val |-> PyNone, missing |-> <<"resolution">>]
             ELSE [exc |-> r.exc, val |-> PyNone, missing |-> <<>>]

\* the lookup of the offset: lines 73-77
resolve_offset(robot_offset, data) ==
    IF robot_offset # PyNone
    THEN [exc |-> "none", val |-> robot_offset, missing |-> <<>>]
    ELSE LET o1 == GetItem(data, "origin")
             x  == IF o1.exc = "none" THEN GetItem(o1.val, "x") ELSE o1
             o2 == IF x.exc = "none" THEN GetItem(data, "origin") ELSE x
             y  == IF o2.exc = "none" THEN GetItem(o2.val, "y") ELSE o2
         IN  IF y.exc = "none"
             THEN [exc |-> "none", val |-> PyList(<<x.val, y.val>>), missing |-> <<>>]
             ELSE IF y.exc = "KeyError"
             THEN [exc |-> "none", val |-> PyNone, missing |-> <<"origin">>]
             ELSE [exc |-> y.exc, val |-> PyNone, missing |-> <<>>]

\* Map.From_Map(path, robot_offset, resolution): raster is what the .pgm
\* file holds, yamlDoc what yaml.safe_load gives for the .yaml file
From_Map(raster, robot_offset, resolution, yamlDoc) ==
    LET data == IF resolution = PyNone \/ robot_offset = PyNone
                THEN yamlDoc ELSE PyNone
        res == resolve_resolution(resolution, data)
        off == IF res.exc = "none" THEN resolve_offset(robot_offset, data)
               ELSE [exc |-> res.exc, val |-> PyNone, missing |-> <<>>]
        missing_fields == res.missing \o off.missing
    IN  IF res.exc # "none"
        THEN [exc |-> res.exc, missing_fields |-> <<>>, map |-> NoMap]
        ELSE IF off.exc # "none"
        THEN [exc |-> off.exc, missing_fields |-> <<>>, map |-> NoMap]
        ELSE IF Len(missing_fields) > 0
        THEN [exc |-> "MissingMapConfigError",
              missing_fields |-> missing_fields, map |-> NoMap]
        ELSE [exc |-> "none", missing_fields |-> <<>>,
              map |-> MapInit(convert_raster(raster), res.val, off.val)]

----------------------------------------------------------------------------
(* items/item.py: class Item *)

\* Item.__init__: the attributes an Item has (a non-empty id is kept)
ItemInit(id, origin, orientation, label, model_path) ==
    [id |-> id, origin |-> origin, orientation |-> orientation,
     label |-> label, model_path |-> model_path]

ItemParams == {"id", "origin", "orientation", "label", "model_path"}

\* a call Item(**kwargs): a keyword __init__ does not take, or a parameter
\* left without a value, is a TypeError
ItemCall(kwargs) ==
    IF DOMAIN kwargs # ItemParams
    THEN Raise("TypeError")
    ELSE Ok(ItemInit(kwargs.id, kwargs.origin, kwargs.orientation,
                     kwargs.label, kwargs.model_path))

----------------------------------------------------------------------------
(* litterbug.py: class Litterbug *)

MaxAttempts == 25

\* probabilities, and the values random() draws: random() is below 1.0
Probabilities == 0 .. ProbScale
Draws == 0 .. ProbScale - 1

\* the metric positions of the robot, and of the spots a ghost is tried at
Locations == { <<0, 1>>, <<1, 2>> }

\* the draws made for one scanned element: the two of random() and the
\* one of choice()
ItemDraws == [r1 : Draws, r2 : Draws, k : 0 .. 1]

\* the draws of the ghost step: the draw of line 215, the one of choice()
\* and the spots the attempts sample
SpotSeqs == UNION { [1 .. n -> Locations] : n \in 0 .. MaxSamples }
GhostDraws == [r : Draws, k : 0 .. 1, spots : SpotSeqs]

\* a Python str: it has none of an Item's attributes
PyStr(v) == [t |-> "str", v |-> v]

\* a dict in insertion order: a sequence of entries [key, value]
DictKeys(d) == [i \in 1 .. Len(d) |-> PyStr(d[i].key)]

\* random.choice(seq), k being the index drawn: an empty seq raises
\* IndexError; seq[k] on a dict keyed by strings raises KeyError
choice(seq, k) ==
    IF Len(seq.v) = 0 THEN Raise("IndexError")
    ELSE IF seq.t = "dict" THEN Raise("KeyError")
    ELSE Ok(seq.v[(k % Len(seq.v)) + 1])

\* line 161 with the comparison turned round
false_negative_drawn_inverted(self, r1) == r1 > self.false_negative_probability

\* line 161: the draw that suppresses a seen item
false_negative_drawn(self, r1) == r1 < self.false_negative_probability

\* lines 163-180: the mislabeled copy of a seen item
mislabel(self, item, k) ==
    LET item_type == choice(self.item_types, k)
    IN  IF item_type.exc # "none" THEN [exc |-> item_type.exc, out |-> <<>>]
        ELSE IF ~HasAttr(item, "name") THEN [exc |-> "AttributeError", out |-> <<>>]
        ELSE LET new == ItemCall([name |-> item.name, label |-> item_type.val,
                                  model |-> "", origin |-> item.origin,
                                  orientation |-> item.orientation])
             IN  IF new.exc # "none" THEN [exc |-> new.exc, out |-> <<>>]
                 ELSE [exc |-> "none", out |-> <<new.val>>]

\* lines 161-182: a seen item when false negatives are simulated
fn_branch(self, item, r1, r2, k) ==
    IF false_negative_drawn(self, r1)
    THEN [exc |-> "none", out |-> <<>>]
    ELSE IF self.enable_false_positives /\ r2 < self.ghost_positive_probability
    THEN mislabel(self, item, k)
    ELSE [exc |-> "none", out |-> <<item>>]

\* lines 160-184 without the tests of seen
scan_item_seen_untested(self, item, seen, r1, r2, k) ==
    IF self.enable_false_negatives
    THEN fn_branch(self, item, r1, r2, k)
    ELSE [exc |-> "none", out |-> <<item>>]

\* lines 160-184: what the scan appends to to_broadcast for one item, given
\* whether it was seen; r1 and r2 are the two draws of random(), k the
\* draw of choice()
scan_item(self, item, seen, r1, r2, k) ==
    IF seen /\ self.enable_false_negatives
    THEN fn_branch(self, item, r1, r2, k)
    ELSE IF seen
    THEN [exc |-> "none", out |-> <<item>>]
    ELSE [exc |-> "none", out |-> <<>>]

\* lines 155-184 for one element of the iteration: item.origin is read,
\* the map is asked, then the decision is taken
scan_element(self, location, item, r1, r2, k) ==
    IF ~HasAttr(item, "origin")
    THEN [exc |-> "AttributeError", out |-> <<>>]
    ELSE LET seen == line_of_sight(self.map, location, item.origin)
         IN  IF seen.exc # "none" THEN [exc |-> seen.exc, out |-> <<>>]
             ELSE scan_item(self, item, seen.ret, r1, r2, k)

\* the loop of lines 155-184 over the elements, from element i on: every
\* result it can have, over the draws made for each element
RECURSIVE scan_loop(_, _, _, _)
scan_loop(self, location, elems, i) ==
    IF i > Len(elems)
    THEN { [exc |-> "none", out |-> <<>>] }
    ELSE LET ones == { scan_element(self, location, elems[i], d.r1, d.r2, d.k) :
                           d \in ItemDraws }
         IN  { [exc |-> one.exc, out |-> <<>>] : one \in { o \in ones : o.exc # "none" } }
             \cup
             UNION { { IF rest.exc # "none" THEN rest
                       ELSE [exc |-> "none", out |-> one.out \o rest.out] :
                           rest \in scan_loop(self, location, elems, i + 1) } :
                     one \in { o \in ones : o.exc = "none" } }

\* what line_of_sight can give a caller: an exception, or a boolean
Sights ==
    { [exc |-> "AttributeError", ret |-> FALSE],
      [exc |-> "none", ret |-> TRUE],
      [exc |-> "none", ret |-> FALSE] }

\* lines 247-259: one pass of the inner loop of __ghost_positives at a
\* sampled spot, given what line_of_sight gave for it.  A spot without
\* line of sight is skipped by `continue`, which leaves attempts as it is.
ghost_attempt(orientation, item_type, spot, seen, attempts) ==
    IF seen.exc # "none"
    THEN [exc |-> seen.exc, appended |-> <<>>, again |-> FALSE,
          attempts |-> attempts]
    ELSE IF ~seen.ret
    THEN [exc |-> "none", appended |-> <<>>, again |-> TRUE,
          attempts |-> attempts]
    ELSE LET new == ItemCall([name |-> "", label |-> item_type,
                              model |-> "", origin |-> spot,
                              orientation |-> orientation])
         IN  IF new.exc # "none"
             THEN [exc |-> new.exc, appended |-> <<>>, again |-> FALSE,
                   attempts |-> attempts]
             ELSE [exc |-> "none", appended |-> <<new.val>>, again |-> FALSE,
                   attempts |-> attempts]

\* the inner loop of __ghost_positives (lines 229-259) over the sampled
\* spots, from sample i on
RECURSIVE ghost_attempts(_, _, _, _, _, _, _)
ghost_attempts(self, location, orientation, item_type, spots, i, attempts) ==
    IF ~(attempts < MaxAttempts)
    THEN [exc |-> "none", appended |-> <<>>]
    ELSE IF i > Len(spots)
    THEN [exc |-> "running", appended |-> <<>>]
    ELSE LET one == ghost_attempt(orientation, item_type, spots[i],
                                  line_of_sight(self.map, location, spots[i]),
                                  attempts)
         IN  IF one.exc = "none" /\ one.again
             THEN ghost_attempts(self, location, orientation, item_type,
                                 spots, i + 1, one.attempts)
             ELSE [exc |-> one.exc, appended |-> one.appended]

\* lines 215-221: the draw r of random() that ends the generation, then
\* the label drawn by choice() with the draw k
ghost_draw(self, r, k) ==
    IF self.mislabel_probability > r
    THEN [brk |-> TRUE, exc |-> "none", item_type |-> ""]
    ELSE LET item_type == choice(self.item_types, k)
         IN  IF item_type.exc # "none"
             THEN [brk |-> FALSE, exc |-> item_type.exc, item_type |-> ""]
             ELSE [brk |-> FALSE, exc |-> "none", item_type |-> item_type.val]

\* what __ghost_positives returns when it ends: it has no return
\* statement, so None, whatever to_broadcast holds
ghost_return(to_broadcast) == PyNone

\* Litterbug.__ghost_positives: r is the draw of line 215, k the draw of
\* choice(), spots the positions sampled by the attempts
ghost_positives(self, location, orientation, r, k, spots) ==
    LET drawn == ghost_draw(self, r, k)
    IN  IF drawn.brk THEN Ok(ghost_return(<<>>))
        ELSE IF drawn.exc # "none" THEN Raise(drawn.exc)
        ELSE LET inner == ghost_attempts(self, location, orientation,
                                         drawn.item_type, spots, 1, 0)
             IN  IF inner.exc # "none" THEN Raise(inner.exc)
                 ELSE Ok(ghost_return(inner.appended))

\* lines 196-200: one sink call per item of to_broadcast
emit(self, to_broadcast) ==
    [i \in 1 .. Len(to_broadcast) |->
        [sink |-> IF self.on_item_detected THEN "on_item_detected"
                  ELSE "broadcast_item_spotted",
         item |-> to_broadcast[i]]]

\* line 188 with a probability of zero let through
ghost_enabled_at_zero(self) ==
    self.enable_false_positives /\ self.ghost_positive_probability >= 0

\* line 188: whether the tick enters __ghost_positives
ghost_enabled(self) ==
    self.enable_false_positives /\ self.ghost_positive_probability > 0

\* lines 186-200 after a scan that gave to_broadcast: the ghost step with
\* the draws g, then the sink calls
scan_finish(self, location, orientation, to_broadcast, g) ==
    IF ghost_enabled(self)
    THEN LET ghosts == ghost_positives(self, location, orientation,
                                       g.r, g.k, g.spots)
         IN  IF ghosts.exc # "none" THEN [exc |-> ghosts.exc, calls |-> <<>>]
             ELSE IF ghosts.val.t # "list"
             THEN [exc |-> "TypeError", calls |-> <<>>]
             ELSE [exc |-> "none",
                   calls |-> emit(self, to_broadcast \o ghosts.val.v)]
    ELSE [exc |-> "none", calls |-> emit(self, to_broadcast)]

\* Litterbug.vision_scan: the pose and the registry are read, the registry
\* is iterated (a dict gives its keys), the ghost step runs, the sink is
\* called.  Every result the tick can have over its draws: the exception
\* raised, if any, and the sink calls.
vision_scan(self, location, orientation, registry) ==
    LET scans == scan_loop(self, location, DictKeys(registry), 1)
    IN  { [exc |-> scanned.exc, calls |-> <<>>] :
              scanned \in { o \in scans : o.exc # "none" } }
        \cup
        { scan_finish(self, location, orientation, scanned.out, g) :
              scanned \in { o \in scans : o.exc = "none" }, g \in GhostDraws }

----------------------------------------------------------------------------
(* config.py: class LitterbugConfig *)

\* the second loop of __merge_setting (lines 45-63) over the keys of base
\* in their order, from key number i on.  A key of the same type as the
\* default raises ConfigTypeError (line 49); for a default that is a dict,
\* line 59 calls __merge_setting with two arguments more than it takes,
\* a TypeError neither except clause catches.
RECURSIVE merge_keys(_, _, _, _)
merge_keys(base, keys, incoming, i) ==
    IF i > Len(keys)
    THEN Ok(PyDict(incoming))
    ELSE LET key == keys[i]
             value == base[key]
         IN  IF key \notin DOMAIN incoming
             THEN merge_keys(base, keys, (key :> value) @@ incoming, i + 1)
             ELSE IF value.t = incoming[key].t
             THEN Raise("ConfigTypeError")
             ELSE IF value.t = "dict"
             THEN Raise("TypeError")
             ELSE merge_keys(base, keys, incoming, i + 1)

\* LitterbugConfig.__merge_setting(base, incoming); keys lists the keys of
\* base in the order the dict holds them
merge_setting(base, keys, incoming) ==
    IF \E key \in DOMAIN incoming : key \notin DOMAIN base
    THEN Raise("UnknownConfigKey")
    ELSE merge_keys(base, keys, incoming, 1)

----------------------------------------------------------------------------
(* Inputs *)

Coords == -1 .. MaxCoord
Points == Coords \X Coords

Resolutions == {1, 2}
Origins == { <<0, 0>>, <<1, 0>> }

CellStates == {OCCUPIED, FREE, UNKNOWN}

\* the Maps the queries run on: built by Map.__init__ over a grid of the
\* three cell states
Maps == { MapInit(a, r, o) : a \in Arrays(GridH, GridW, CellStates),
                             r \in Resolutions, o \in Origins }

\* raster intensities: the three From_Map recognizes, and two it does not
Intensities == {OCCUPIED_PGM, UNKNOWN_PGM, FREE_PGM, 1, 100}
Rasters == Arrays(GridH, GridW, Intensities)

\* what the origin entry of the metadata may hold
YamlOrigins ==
    { PyDict([x |-> PyNum(0), y |-> PyNum(0)]),
      PyDict([x |-> PyNum(0)]),
      PyDict([y |-> PyNum(0)]),
      PyList(<<PyNum(0), PyNum(0), PyNum(0)>>),
      PyNone }

\* what yaml.safe_load may return: None for an empty document, else a
\* mapping with or without resolution and origin
YamlDocs ==
    {PyNone, PyDict(<<>>), PyDict([resolution |-> PyNum(1)])}
    \cup { PyDict([origin |-> o]) : o \in YamlOrigins }
    \cup { PyDict([resolution |-> PyNum(1), origin |-> o]) : o \in YamlOrigins }

ResolutionArgs == {PyNone, PyNum(2)}
OffsetArgs == {PyNone, PyList(<<PyNum(0), PyNum(0)>>)}

\* the vision parameters __initiate_vision reads from the configuration,
\* and whether a callback was passed to the constructor
Configs ==
    [enable_false_negatives : BOOLEAN,
     false_negative_probability : Probabilities,
     enable_false_positives : BOOLEAN,
     ghost_positive_probability : Probabilities,
     mislabel_probability : Probabilities,
     on_item_detected : BOOLEAN]

\* the Items the orchestrator places
ItemPool ==
    { ItemInit("a", <<1, 1>>, <<0, 0, 0>>, "can", "can.sdf"),
      ItemInit("b", <<1, 2>>, <<0, 0, 0>>, "cup", "cup.sdf") }

\* the rotations about z an odometry message carries, as the two
\* arguments __quaternion_to_euler gives atan2 for psi
YawArgs == { <<0, 1>>, <<1, 0>>, <<0, -1>>, <<-1, 0>> }

\* Litterbug.__item_types: the dict of line 62, or the list it is
\* annotated as, holding the labels in the order they came
TypesDict(labels) == [t |-> "dict", v |-> labels]
TypesList(labels) == [t |-> "list", v |-> labels]

\* the Maps a node scans: all cells FREE, or one cell OCCUPIED
ScannerMaps ==
    { MapInit(NdArray(GridH, GridW, [ix \in Indices(GridH, GridW) |-> FREE]),
              1, <<0, 0>>),
      MapInit(NdArray(GridH, GridW,
                      [ix \in Indices(GridH, GridW) |->
                          IF ix = <<1, 1>> THEN OCCUPIED ELSE FREE]),
              1, <<0, 0>>) }


\* what yaml.safe_load gives for the default configuration, and its keys
\* in their order
Defaults ==
    [fps |-> PyNum(10), topic |-> PyStr("odom"),
     vision |-> PyDict([range |-> PyNum(5)])]
DefaultKeys == <<"fps", "topic", "vision">>

\* the values a user configuration may give a key: of the default's type
\* or of another, and for the nested dict with known and unknown keys
UserValues(key) ==
    IF key = "fps" THEN { PyNum(30), PyStr("fast") }
    ELSE IF key = "topic" THEN { PyStr("pose"), PyNum(1) }
    ELSE IF key = "vision"
    THEN { PyDict(<<>>), PyDict([range |-> PyNum(9)]),
           PyDict([range |-> PyStr("far")]), PyDict([depth |-> PyNum(1)]),
           PyNum(0) }
    ELSE { PyNum(1) }

UserKeys == {"fps", "topic", "vision", "extra"}

\* the user configurations: any of the keys, each with one of its values
UserConfigs ==
    { f \in UNION { [K -> UNION { UserValues(k) : k \in UserKeys }] :
                       K \in SUBSET UserKeys } :
          \A k \in DOMAIN f : f[k] \in UserValues(k) }

----------------------------------------------------------------------------
(* SpecMap: line-of-sight queries on a Map *)

NoCall == [called |-> FALSE]

\* no call of __ghost_positives is being followed
GhostIdle == ghost = [stage |-> "idle"]

\* the timer has not fired and no vision_scan is running
RunIdle ==
    /\ timer = [ready |-> FALSE, overrun |-> FALSE]
    /\ pc = "idle"
    /\ frame = NoCall

\* no thread is in __odom_callback or get_robot_pose; the pose is the one
\* of lines 49-50
PoseIdle ==
    /\ pose_lock = "free"
    /\ odom = [pc |-> "idle"]
    /\ reader = [pc |-> "idle", returned |-> FALSE]
    /\ last_msg = << <<0, 0>>, 0 >>

\* no call of __merge_setting has been made
MergeIdle ==
    /\ mergeIn = NoCall
    /\ mergeOut = Ok(PyNone)

\* the variables of the node and of the scan decision, at rest
NodeIdle ==
    /\ config = [enable_false_negatives |-> FALSE,
                 false_negative_probability |-> 0,
                 enable_false_positives |-> FALSE,
                 ghost_positive_probability |-> 0,
                 mislabel_probability |-> 0,
                 on_item_detected |-> FALSE]
    /\ robot_location = <<0, 0>>
    /\ robot_orientation = 0
    /\ items = <<>>
    /\ item_types = [t |-> "dict", v |-> <<>>]
    /\ inventory = <<>>
    /\ tick = NoCall
    /\ scanIn = NoCall
    /\ scanOut = [exc |-> "none", out |-> <<>>]
    /\ GhostIdle
    /\ RunIdle
    /\ PoseIdle
    /\ MergeIdle

InitMap ==
    /\ map \in Maps
    /\ losArgs = NoCall
    /\ losResult = [exc |-> "none", ret |-> FALSE]
    /\ loadArgs = NoCall
    /\ loadResult = [exc |-> "none", missing_fields |-> <<>>, map |-> NoMap]
    /\ NodeIdle

LineOfSight ==
    \E a \in Points, b \in Points :
        /\ ~losArgs.called
        /\ losArgs' = [called |-> TRUE, origin |-> a, target |-> b]
        /\ losResult' = line_of_sight(map, a, b)
        /\ UNCHANGED <<map, loadVars, nodeVars, scanVars, ghostVars, runVars,
                       poseVars, mergeVars>>

NextMap == LineOfSight

SpecMap == InitMap /\ [][NextMap]_vars

----------------------------------------------------------------------------
(* SpecLoad: Map.From_Map over rasters, arguments and metadata documents *)

InitLoad ==
    /\ map = NoMap
    /\ losArgs = NoCall
    /\ losResult = [exc |-> "none", ret |-> FALSE]
    /\ loadArgs \in { [called |-> FALSE, raster |-> r] : r \in Rasters }
    /\ loadResult = [exc |-> "none", missing_fields |-> <<>>, map |-> NoMap]
    /\ NodeIdle

\* one call of Map.From_Map on the raster file, with or without the two
\* optional arguments, beside a metadata file
LoadMap ==
    \E off \in OffsetArgs, res \in ResolutionArgs, doc \in YamlDocs :
        /\ ~loadArgs.called
        /\ loadArgs' = [called |-> TRUE, raster |-> loadArgs.raster,
                        robot_offset |-> off, resolution |-> res, yaml |-> doc]
        /\ loadResult' = From_Map(loadArgs.raster, off, res, doc)
        /\ UNCHANGED <<mapVars, nodeVars, scanVars, ghostVars, runVars,
                       poseVars, mergeVars>>

NextLoad == LoadMap

SpecLoad == InitLoad /\ [][NextLoad]_vars

----------------------------------------------------------------------------
(* Spec: the Litterbug node: odometry, the orchestrator's registry, ticks *)

\* the node as its methods see it
Self == [map |-> map, item_types |-> item_types] @@ config

MapIdle ==
    /\ losArgs = NoCall
    /\ losResult = [exc |-> "none", ret |-> FALSE]

LoadIdle ==
    /\ loadArgs = NoCall
    /\ loadResult = [exc |-> "none", missing_fields |-> <<>>, map |-> NoMap]

\* Litterbug.__init__: lines 48-62
NodeInit ==
    /\ robot_location = <<0, 0>>
    /\ robot_orientation = 0
    /\ items = <<>>
    /\ item_types = TypesDict(<<>>)
    /\ inventory = <<>>
    /\ tick = NoCall

ScanIdle ==
    /\ scanIn = NoCall
    /\ scanOut = [exc |-> "none", out |-> <<>>]

Init ==
    /\ map \in ScannerMaps
    /\ MapIdle
    /\ LoadIdle
    /\ config \in Configs
    /\ NodeInit
    /\ ScanIdle
    /\ GhostIdle
    /\ RunIdle
    /\ PoseIdle
    /\ MergeIdle

\* psi = atan2(a, b) of __quaternion_to_euler, in quarter turns, for a
\* rotation about z by a multiple of a quarter turn
Atan2Quarter(a, b) ==
    IF a = 0 /\ b > 0 THEN 0
    ELSE IF a > 0 /\ b = 0 THEN 1
    ELSE IF a = 0 /\ b < 0 THEN 2
    ELSE -1

\* Litterbug.__odom_callback: the pose of the message replaces the pose
OdomCallback ==
    \E position \in Locations, q \in YawArgs :
        /\ robot_location' = position
        /\ robot_orientation' = Atan2Quarter(q[1], q[2])
        /\ tick' = NoCall
        /\ UNCHANGED <<config, items, item_types, inventory,
                       mapVars, loadVars, scanVars, ghostVars, runVars,
                       poseVars, mergeVars>>

Labels(types) == { types.v[i] : i \in 1 .. Len(types.v) }

\* the orchestrator places an Item: it writes the dicts that
\* get_world_items and get_item_types hand out
PlaceItem ==
    \E item \in ItemPool :
        /\ Len(items) < MaxItems
        /\ \A i \in 1 .. Len(items) : items[i].key # item.id
        /\ items' = Append(items, [key |-> item.id, value |-> item])
        /\ item_types' = IF item.label \in Labels(item_types) THEN item_types
                         ELSE [item_types EXCEPT !.v = Append(@, item.label)]
        /\ tick' = NoCall
        /\ UNCHANGED <<config, robot_location, robot_orientation, inventory,
                       mapVars, loadVars, scanVars, ghostVars, runVars,
                       poseVars, mergeVars>>

\* a vision_scan that takes what it scanned out of the registry
VisionScan_emptying_registry ==
    \E done \in vision_scan(Self, robot_location, robot_orientation, items) :
        /\ tick' = [called |-> TRUE, exc |-> done.exc, calls |-> done.calls]
        /\ items' = <<>>
        /\ UNCHANGED <<config, robot_location, robot_orientation,
                       item_types, inventory, mapVars, loadVars, scanVars,
                       ghostVars, runVars, poseVars, mergeVars>>

\* one firing of the timer of line 94: Litterbug.vision_scan
VisionScan ==
    \E done \in vision_scan(Self, robot_location, robot_orientation, items) :
        /\ tick' = [called |-> TRUE, exc |-> done.exc, calls |-> done.calls]
        /\ UNCHANGED <<config, robot_location, robot_orientation, items,
                       item_types, inventory, mapVars, loadVars, scanVars,
                       ghostVars, runVars, poseVars, mergeVars>>

Next == OdomCallback \/ PlaceItem \/ VisionScan

Spec == Init /\ [][Next]_vars

----------------------------------------------------------------------------
(* SpecScan: the decision of vision_scan on one scanned Item (lines        *)
(* 160-184), over the flags, the probabilities, the draws and whether the  *)
(* Item was seen                                                           *)

TypeInputs ==
    { TypesDict(<<>>), TypesDict(<<"can", "cup">>), TypesList(<<"can", "cup">>) }

InitScan ==
    /\ map \in ScannerMaps
    /\ MapIdle
    /\ LoadIdle
    /\ config \in Configs
    /\ robot_location = <<0, 0>>
    /\ robot_orientation = 0
    /\ items = <<>>
    /\ item_types \in TypeInputs
    /\ inventory = <<>>
    /\ tick = NoCall
    /\ ScanIdle
    /\ GhostIdle
    /\ RunIdle
    /\ PoseIdle
    /\ MergeIdle

ScanItem ==
    \E item \in ItemPool, seen \in BOOLEAN, r1 \in Draws, r2 \in Draws,
       k \in 0 .. 1 :
        /\ ~scanIn.called
        /\ scanIn' = [called |-> TRUE, item |-> item, seen |-> seen,
                      r1 |-> r1, r2 |-> r2, k |-> k]
        /\ scanOut' = scan_item(Self, item, seen, r1, r2, k)
        /\ UNCHANGED <<mapVars, loadVars, nodeVars, ghostVars, runVars,
                       poseVars, mergeVars>>

\* the rest of the tick after the decision (lines 186-200): the ghost step
\* and the sink calls, on the to_broadcast the decision left
FinishScan ==
    \E done \in { scan_finish(Self, robot_location, robot_orientation,
                              scanOut.out, g) : g \in GhostDraws } :
        /\ scanIn.called
        /\ scanOut.exc = "none"
        /\ ~tick.called
        /\ tick' = [called |-> TRUE, entered |-> ghost_enabled(Self),
                    exc |-> done.exc, calls |-> done.calls]
        /\ UNCHANGED <<config, robot_location, robot_orientation, items,
                       item_types, inventory, mapVars, loadVars, scanVars,
                       ghostVars, runVars, poseVars, mergeVars>>

NextScan == ScanItem \/ FinishScan

SpecScan == InitScan /\ [][NextScan]_vars

----------------------------------------------------------------------------
(* SpecGhost: one call of __ghost_positives followed line by line, over    *)
(* the draws, the known labels and what line_of_sight gives at each        *)
(* sampled spot                                                            *)

\* vision_scan has called the generator (line 189); the call has read the
\* pose (line 208) and stands before the draw
GhostCalled ==
    ghost = [stage |-> "l215", drawn |-> FALSE, r |-> 0, attempted |-> FALSE,
             item_type |-> "", attempts |-> 0, samples |-> 0,
             to_broadcast |-> <<>>, exc |-> "none", ret |-> PyNone]

InitGhost ==
    /\ map \in ScannerMaps
    /\ MapIdle
    /\ LoadIdle
    /\ config \in { c \in Configs : ghost_enabled(c) }
    /\ robot_location = <<0, 0>>
    /\ robot_orientation = 0
    /\ items = <<>>
    /\ item_types \in TypeInputs
    /\ inventory = <<>>
    /\ tick = NoCall
    /\ ScanIdle
    /\ GhostCalled
    /\ RunIdle
    /\ PoseIdle
    /\ MergeIdle

\* lines 214-229: the draw that ends the generation, the label, attempts = 0
GhostDraw ==
    \E r \in Draws, k \in 0 .. 1 :
        /\ ghost.stage = "l215"
        /\ LET drawn == ghost_draw(Self, r, k)
           IN  ghost' =
                 [ghost EXCEPT
                    !.drawn = TRUE,
                    !.r = r,
                    !.attempted = ~drawn.brk,
                    !.item_type = drawn.item_type,
                    !.exc = drawn.exc,
                    !.ret = ghost_return(<<>>),
                    !.stage = IF drawn.brk THEN "returned"
                              ELSE IF drawn.exc # "none" THEN "raised"
                              ELSE "l230"]
        /\ UNCHANGED <<mapVars, loadVars, nodeVars, scanVars, runVars,
                       poseVars, mergeVars>>

\* lines 230-263: the test of the attempt budget and one pass of the inner
\* loop.  The passes are followed up to the one after the budget.
GhostSample ==
    \E spot \in Locations, seen \in Sights :
        /\ ghost.stage = "l230"
        /\ ghost.samples <= MaxAttempts
        /\ LET one == ghost_attempt(robot_orientation, ghost.item_type, spot,
                                    seen, ghost.attempts)
           IN  ghost' =
                 IF ~(ghost.attempts < MaxAttempts)
                 THEN [ghost EXCEPT !.stage = "returned",
                                    !.ret = ghost_return(ghost.to_broadcast)]
                 ELSE IF one.exc # "none"
                 THEN [ghost EXCEPT !.stage = "raised", !.exc = one.exc,
                                    !.samples = @ + 1]
                 ELSE IF one.again
                 THEN [ghost EXCEPT !.attempts = one.attempts,
                                    !.samples = @ + 1]
                 ELSE [ghost EXCEPT !.stage = "returned",
                                    !.samples = @ + 1,
                                    !.to_broadcast = @ \o one.appended,
                                    !.ret = ghost_return(ghost.to_broadcast
                                                         \o one.appended)]
        /\ UNCHANGED <<mapVars, loadVars, nodeVars, scanVars, runVars,
                       poseVars, mergeVars>>

NextGhost == GhostDraw \/ GhostSample

SpecGhost == InitGhost /\ [][NextGhost]_vars

----------------------------------------------------------------------------
(* SpecRun: the node with vision_scan followed line by line.  The timer of *)
(* line 94 and the subscription of line 51 are created without a callback  *)
(* group, so both are in the node's default group, which rclpy makes       *)
(* mutually exclusive: the executor starts a callback of the group only    *)
(* when none is running.  The orchestrator that owns the registry is not a *)
(* callback of the node and writes the registry at any time.               *)

\* the settings a followed tick runs under: the flags of the per-item
\* decision are left at rest
RunConfigs ==
    { c \in Configs : /\ ~c.enable_false_negatives
                      /\ c.false_negative_probability = 0
                      /\ ~c.on_item_detected }

InitRun ==
    /\ map \in ScannerMaps
    /\ MapIdle
    /\ LoadIdle
    /\ config \in RunConfigs
    /\ NodeInit
    /\ ScanIdle
    /\ GhostIdle
    /\ RunIdle
    /\ PoseIdle
    /\ MergeIdle

\* the period of the timer elapses: the timer is ready, whether or not a
\* vision_scan is running
TimerFires ==
    /\ ~timer.ready
    /\ timer' = [ready |-> TRUE, overrun |-> pc # "idle"]
    /\ UNCHANGED <<pc, frame, mapVars, loadVars, nodeVars, scanVars, ghostVars,
                   poseVars, mergeVars>>

\* the executor takes the ready timer and calls vision_scan, which has no
\* test of a tick in flight; line 148 reads the pose.  poses lists what
\* get_robot_pose returned to this tick, registry what the dict held when
\* get_world_items returned it, scanned the elements the loop took.
TickStart ==
    /\ pc = "idle"
    /\ timer.ready
    /\ timer' = [ready |-> FALSE, overrun |-> FALSE]
    /\ pc' = "l150"
    /\ frame' = [called |-> TRUE, late |-> timer.overrun,
                 location |-> robot_location,
                 orientation |-> robot_orientation,
                 poses |-> << <<robot_location, robot_orientation>> >>,
                 registry |-> <<>>, used |-> 0, pos |-> 1,
                 scanned |-> <<>>, to_broadcast |-> <<>>,
                 exc |-> "none", calls |-> <<>>]
    /\ UNCHANGED <<mapVars, loadVars, nodeVars, scanVars, ghostVars,
                   poseVars, mergeVars>>

\* lines 150-152: get_world_items returns the dict itself, not a copy
TickGetItems ==
    /\ pc = "l150"
    /\ pc' = "l155"
    /\ frame' = [frame EXCEPT !.registry = items]
    /\ UNCHANGED <<timer, mapVars, loadVars, nodeVars, scanVars, ghostVars,
                   poseVars, mergeVars>>

\* line 155: the iterator over the dict is made; it notes the dict's size
TickIter ==
    /\ pc = "l155"
    /\ pc' = "loop"
    /\ frame' = [frame EXCEPT !.used = Len(items), !.pos = 1]
    /\ UNCHANGED <<timer, mapVars, loadVars, nodeVars, scanVars, ghostVars,
                   poseVars, mergeVars>>

\* lines 155-184 for the next element: the iterator raises RuntimeError
\* when the dict has changed size, else gives the next key, or ends
TickScan ==
    /\ pc = "loop"
    /\ IF Len(items) # frame.used
       THEN /\ pc' = "idle"
            /\ frame' = [frame EXCEPT !.exc = "RuntimeError"]
       ELSE IF frame.pos > Len(items)
       THEN /\ pc' = "l188"
            /\ frame' = frame
       ELSE \E one \in { scan_element(Self, frame.location,
                                       DictKeys(items)[frame.pos],
                                       d.r1, d.r2, d.k) : d \in ItemDraws } :
                /\ pc' = IF one.exc = "none" THEN "loop" ELSE "idle"
                /\ frame' = [frame EXCEPT
                                !.scanned = Append(@, DictKeys(items)[frame.pos]),
                                !.pos = @ + 1,
                                !.to_broadcast = @ \o one.out,
                                !.exc = one.exc]
    /\ UNCHANGED <<timer, mapVars, loadVars, nodeVars, scanVars, ghostVars,
                   poseVars, mergeVars>>

\* lines 186-200: the ghost step, where __ghost_positives reads the pose
\* again (line 208), then the sink calls; vision_scan returns
TickGhost ==
    /\ pc = "l188"
    /\ \E done \in { scan_finish(Self, robot_location, robot_orientation,
                                 frame.to_broadcast, g) : g \in GhostDraws } :
           frame' = [frame EXCEPT
                       !.poses = IF ghost_enabled(Self)
                                 THEN Append(@, <<robot_location,
                                                  robot_orientation>>)
                                 ELSE @,
                       !.exc = done.exc,
                       !.calls = done.calls]
    /\ pc' = "idle"
    /\ UNCHANGED <<timer, mapVars, loadVars, nodeVars, scanVars, ghostVars,
                   poseVars, mergeVars>>

\* the executor calls __odom_callback: only when no callback of the group
\* is running
OdomExecuted ==
    /\ pc = "idle"
    /\ OdomCallback

NextRun ==
    \/ TimerFires
    \/ TickStart
    \/ TickGetItems
    \/ TickIter
    \/ TickScan
    \/ TickGhost
    \/ OdomExecuted
    \/ PlaceItem

SpecRun == InitRun /\ [][NextRun]_vars

----------------------------------------------------------------------------
(* SpecPose: __odom_callback and get_robot_pose followed line by line, the *)
(* callback run by the executor and get_robot_pose called from another     *)
(* thread, both taking __robot_pose_lock                                   *)

InitPose ==
    /\ map \in ScannerMaps
    /\ MapIdle
    /\ LoadIdle
    /\ NodeIdle

\* lines 299-305: a message arrives; its position is taken and its
\* quaternion converted, outside the lock
OdomReceive ==
    \E position \in Locations, q \in YawArgs :
        /\ odom.pc = "idle"
        /\ odom' = [pc |-> "l307", location |-> position,
                    psi |-> Atan2Quarter(q[1], q[2])]
        /\ UNCHANGED <<pose_lock, reader, last_msg, mapVars, loadVars, nodeVars,
                       scanVars, ghostVars, runVars, mergeVars>>

\* line 307: the callback takes the lock, waiting while it is held
OdomAcquire ==
    /\ odom.pc = "l307"
    /\ pose_lock = "free"
    /\ pose_lock' = "odom"
    /\ odom' = [odom EXCEPT !.pc = "l308"]
    /\ UNCHANGED <<reader, last_msg, mapVars, loadVars, nodeVars,
                   scanVars, ghostVars, runVars, mergeVars>>

\* line 308
OdomWriteLocation ==
    /\ odom.pc = "l308"
    /\ robot_location' = odom.location
    /\ odom' = [odom EXCEPT !.pc = "l309"]
    /\ UNCHANGED <<pose_lock, reader, last_msg, config, robot_orientation,
                   items, item_types, inventory, tick, mapVars, loadVars,
                   scanVars, ghostVars, runVars, mergeVars>>

\* line 309 and the end of the with block: the lock is released and the
\* message is stored
OdomWriteOrientation ==
    /\ odom.pc = "l309"
    /\ robot_orientation' = odom.psi
    /\ pose_lock' = "free"
    /\ last_msg' = <<odom.location, odom.psi>>
    /\ odom' = [pc |-> "idle"]
    /\ UNCHANGED <<reader, config, robot_location, items, item_types,
                   inventory, tick, mapVars, loadVars, scanVars, ghostVars,
                   runVars, mergeVars>>

\* a get_robot_pose that does not take the lock
ReaderEnter_without_lock ==
    /\ reader.pc = "idle"
    /\ reader' = [pc |-> "l112", returned |-> FALSE, expected |-> last_msg]
    /\ UNCHANGED <<pose_lock, odom, last_msg, mapVars, loadVars, nodeVars,
                   scanVars, ghostVars, runVars, mergeVars>>

\* line 111: get_robot_pose takes the lock, waiting while it is held;
\* expected notes the message stored last at that moment
ReaderEnter ==
    /\ reader.pc = "idle"
    /\ pose_lock = "free"
    /\ pose_lock' = "reader"
    /\ reader' = [pc |-> "l112", returned |-> FALSE, expected |-> last_msg]
    /\ UNCHANGED <<odom, last_msg, mapVars, loadVars, nodeVars,
                   scanVars, ghostVars, runVars, mergeVars>>

\* line 112 and the end of the with block: the pair is returned and the
\* lock released
ReaderReturn ==
    /\ reader.pc = "l112"
    /\ reader' = [pc |-> "idle", returned |-> TRUE,
                  expected |-> reader.expected,
                  pair |-> <<robot_location, robot_orientation>>]
    /\ pose_lock' = IF pose_lock = "reader" THEN "free" ELSE pose_lock
    /\ UNCHANGED <<odom, last_msg, mapVars, loadVars, nodeVars,
                   scanVars, ghostVars, runVars, mergeVars>>

NextPose ==
    \/ OdomReceive
    \/ OdomAcquire
    \/ OdomWriteLocation
    \/ OdomWriteOrientation
    \/ ReaderEnter
    \/ ReaderReturn

SpecPose == InitPose /\ [][NextPose]_vars

----------------------------------------------------------------------------
(* SpecMerge: LitterbugConfig.__init__ merging a user configuration into   *)
(* the defaults                                                            *)

InitMerge ==
    /\ map \in ScannerMaps
    /\ MapIdle
    /\ LoadIdle
    /\ NodeIdle

\* line 28: self.__merge_setting(default_attributes, attributes)
MergeSetting ==
    \E attributes \in UserConfigs :
        /\ ~mergeIn.called
        /\ mergeIn' = [called |-> TRUE, incoming |-> attributes]
        /\ mergeOut' = merge_setting(Defaults, DefaultKeys, attributes)
        /\ UNCHANGED <<mapVars, loadVars, nodeVars, scanVars, ghostVars,
                       runVars, poseVars>>

NextMerge == MergeSetting

SpecMerge == InitMerge /\ [][NextMerge]_vars

----------------------------------------------------------------------------
(* What the design says of the Map, for stating the claims *)

\* toGridCoordinates of the design: floor, and the vertical flip
GridCol(m, p) == (p[1] - m.origin[1]) \div m.resolution
GridRow(m, p) == m.map.shape[1] - ((p[2] - m.origin[2]) \div m.resolution)

\* the cells of the rasterized segment between two metric points
SegmentCells(m, a, b) ==
    LET cells == define_line(GridCol(m, a), GridRow(m, a),
                             GridCol(m, b), GridRow(m, b))
    IN  { cells[i] : i \in 1 .. Len(cells) }

InGrid(m, cell) ==
    /\ 0 <= cell[1] /\ cell[1] < m.map.shape[2]
    /\ 0 <= cell[2] /\ cell[2] < m.map.shape[1]

AllInGrid(m, a, b) == \A c \in SegmentCells(m, a, b) : InGrid(m, c)

SomeOccupied(m, a, b) ==
    \E c \in SegmentCells(m, a, b) :
        InGrid(m, c) /\ m.map.data[<<c[2], c[1]>>] = OCCUPIED

----------------------------------------------------------------------------
(* Claims about Map.line_of_sight (SpecMap) *)

\* C1: for two metric points whose rasterized cells all lie inside the
\* grid, line_of_sight returns false exactly when some cell of the
\* rasterized segment is OCCUPIED, and true otherwise.
C1_BlockedIffOccupied ==
    (losArgs.called /\ AllInGrid(map, losArgs.origin, losArgs.target))
        => /\ losResult.exc = "none"
           /\ losResult.ret = ~SomeOccupied(map, losArgs.origin, losArgs.target)

\* C2: the degenerate query line_of_sight(p, p) returns true.
C2_DegenerateIsVisible ==
    (losArgs.called /\ losArgs.origin = losArgs.target)
        => (losResult.exc = "none" /\ losResult.ret = TRUE)

\* C3: line_of_sight(a, b) and line_of_sight(b, a) return the same value.
C3_Symmetric ==
    losArgs.called
        => LET back == line_of_sight(map, losArgs.target, losArgs.origin)
           IN  /\ losResult.exc = "none"
               /\ back.exc = "none"
               /\ back.ret = losResult.ret

\* C4: line_of_sight never raises, and a query whose rasterized segment
\* has a cell outside the grid returns false.
C4_OutOfBoundsBlocks ==
    losArgs.called
        => /\ losResult.exc = "none"
           /\ ~AllInGrid(map, losArgs.origin, losArgs.target)
                  => losResult.ret = FALSE

\* C5: the metric-to-grid conversion of a point returns
\* col = floor((x - origin.x) / resolution) and
\* row = gridHeight - floor((y - origin.y) / resolution).
C5_ConversionFloors ==
    losArgs.called
        => LET px == meter_to_pixel_coordinates(map, losArgs.origin)
           IN  /\ px.exc = "none"
               /\ px.col = GridCol(map, losArgs.origin)
               /\ px.row = GridRow(map, losArgs.origin)

----------------------------------------------------------------------------
(* Claims about Map.From_Map (SpecLoad) *)

\* the metadata document has a resolution entry
SuppliesResolution(doc) == doc.t = "dict" /\ "resolution" \in DOMAIN doc.d

\* the metadata document has an origin entry with an x and a y
SuppliesOrigin(doc) ==
    /\ doc.t = "dict"
    /\ "origin" \in DOMAIN doc.d
    /\ doc.d["origin"].t = "dict"
    /\ {"x", "y"} \subseteq DOMAIN doc.d["origin"].d

\* the fields a call leaves unresolved: omitted and not in the metadata
Unresolved(args) ==
    (IF args.resolution = PyNone /\ ~SuppliesResolution(args.yaml)
     THEN {"resolution"} ELSE {})
    \cup
    (IF args.robot_offset = PyNone /\ ~SuppliesOrigin(args.yaml)
     THEN {"origin"} ELSE {})

SeqToSet(s) == { s[i] : i \in 1 .. Len(s) }

\* C6: when From_Map is called with resolution and/or robot_offset omitted,
\* all the omitted fields the metadata does not supply are reported in one
\* MissingMapConfigError whose missing_fields lists every one of them, and
\* no other exception escapes.
C6_MissingFieldsAggregated ==
    (loadArgs.called /\ Unresolved(loadArgs) # {})
        => /\ loadResult.exc = "MissingMapConfigError"
           /\ SeqToSet(loadResult.missing_fields) = Unresolved(loadArgs)

\* the cell state the design gives a recognized intensity
StateOf(v) ==
    IF v = OCCUPIED_PGM THEN OCCUPIED
    ELSE IF v = FREE_PGM THEN FREE
    ELSE UNKNOWN

Recognized == {OCCUPIED_PGM, FREE_PGM, UNKNOWN_PGM}

\* C7: From_Map fails when the raster holds an intensity other than the
\* three recognized ones, and a Map it returns holds in every cell the
\* state of that cell's recognized intensity.
C7_OnlyRecognizedIntensities ==
    loadArgs.called
        => /\ (\E ix \in DOMAIN loadArgs.raster.data :
                   loadArgs.raster.data[ix] \notin Recognized)
                  => loadResult.exc # "none"
           /\ loadResult.exc = "none"
                  => \A ix \in DOMAIN loadArgs.raster.data :
                         /\ loadArgs.raster.data[ix] \in Recognized
                         /\ loadResult.map.map.data[ix]
                                = StateOf(loadArgs.raster.data[ix])

----------------------------------------------------------------------------
(* Claims about Litterbug.vision_scan *)

\* the design's visibility: every cell of the rasterized segment is in the
\* grid and none is OCCUPIED
Visible(m, a, b) == AllInGrid(m, a, b) /\ ~SomeOccupied(m, a, b)

VisibleEntries ==
    { i \in 1 .. Len(items) : Visible(map, robot_location, items[i].value.origin) }

CallsOf(item) == { j \in 1 .. Len(tick.calls) : tick.calls[j].item = item }

\* C8: in a tick with false-negative simulation disabled, every registry
\* Item with line of sight from the robot is reported exactly once and as
\* the registry's own Item, whatever the false-positive settings; with
\* false positives disabled too and one visible Item, the tick emits
\* exactly one detection.
C8_VisibleReportedOnce ==
    (tick.called /\ ~config.enable_false_negatives /\ VisibleEntries # {})
        => /\ tick.exc = "none"
           /\ \A i \in VisibleEntries :
                  Cardinality(CallsOf(items[i].value)) = 1
           /\ (~config.enable_false_positives /\ Cardinality(VisibleEntries) = 1)
                  => Len(tick.calls) = 1

\* C9: an Item that is not seen (line_of_sight is false) gives no
\* detection, neither the Item nor a mislabeled copy, whatever the flags,
\* the probabilities and the draws, and the scan goes on.
C9_UnseenNotReported ==
    (scanIn.called /\ ~scanIn.seen)
        => (scanOut.exc = "none" /\ scanOut.out = <<>>)

C9_Witness ==
    /\ scanIn.called
    /\ ~scanIn.seen
    /\ config.enable_false_negatives
    /\ config.false_negative_probability = 0
    /\ config.enable_false_positives
    /\ config.ghost_positive_probability = ProbScale
    /\ scanOut.out = <<>>

\* C10, as claimed: with false-negative probability 1.0 a seen Item is
\* never reported, whatever the draws.
C10_ProbabilityOneNeverReported ==
    (scanIn.called /\ scanIn.seen
        /\ config.false_negative_probability = ProbScale)
        => scanOut.out = <<>>

\* C10, amended: with false-negative simulation enabled and false-negative
\* probability 1.0 a seen Item is never reported, whatever the draws.
C10_EnabledProbabilityOneNeverReported ==
    (scanIn.called /\ scanIn.seen
        /\ config.enable_false_negatives
        /\ config.false_negative_probability = ProbScale)
        => (scanOut.exc = "none" /\ scanOut.out = <<>>)

C10_Witness ==
    /\ scanIn.called
    /\ scanIn.seen
    /\ config.enable_false_negatives
    /\ config.false_negative_probability = ProbScale
    /\ config.enable_false_positives
    /\ config.ghost_positive_probability = ProbScale
    /\ scanOut.out = <<>>

\* C11: with a per-tick ghost probability of 0.0 the tick does not enter
\* the ghost generator and does not fail, and every detection it emits is
\* the scanned registry Item itself: no ghost and no mislabeled copy,
\* whatever the flags and the draws.
C11_ZeroGhostProbabilityEmitsOnlyItems ==
    (tick.called /\ config.ghost_positive_probability = 0)
        => /\ ~tick.entered
           /\ tick.exc = "none"
           /\ \A j \in 1 .. Len(tick.calls) : tick.calls[j].item = scanIn.item

C11_Witness ==
    /\ tick.called
    /\ config.ghost_positive_probability = 0
    /\ config.enable_false_positives
    /\ config.enable_false_negatives
    /\ config.mislabel_probability = 0
    /\ scanIn.seen
    /\ Len(tick.calls) = 1
    /\ tick.calls[1].item = scanIn.item

\* C12: with an empty registry and no known label, every tick completes
\* without raising and emits no detection, whatever the flags, the
\* probabilities and the draws.
C12_EmptyRegistryTickCompletes ==
    (tick.called /\ items = <<>> /\ item_types.v = <<>>)
        => (tick.exc = "none" /\ tick.calls = <<>>)

\* C13: the ghost generator does not raise, and what it returns is a list
\* holding at most one fabricated detection, which vision_scan can append
\* to the tick's detections.
C13_GhostGeneratorReturnsList ==
    ghost.stage \in {"returned", "raised"}
        => /\ ghost.stage = "returned"
           /\ ghost.ret.t = "list"
           /\ Len(ghost.ret.v) <= 1

\* the sink a tick delivers to: the callback when one was given, else the
\* default broadcast
SinkOf(cfg) ==
    IF cfg.on_item_detected THEN "on_item_detected" ELSE "broadcast_item_spotted"

\* C14: every detection of a tick is delivered by exactly one call of the
\* one sink, the calls coming in scan order, followed by the call for the
\* ghost detection if there is one.
C14_OneSinkCallPerDetection ==
    tick.called
        => /\ Len(scanOut.out) <= Len(tick.calls)
           /\ Len(tick.calls) <= Len(scanOut.out) + 1
           /\ \A j \in 1 .. Len(tick.calls) :
                  tick.calls[j].sink = SinkOf(config)
           /\ \A j \in 1 .. Len(scanOut.out) :
                  tick.calls[j].item = scanOut.out[j]

\* C16: vision_scan writes none of the shared collections: a tick leaves
\* the registry, with every Item in it, the inventory and the known labels
\* exactly as they were, whatever the flags and the draws.
C16_ScanWritesNoRegistry ==
    [][VisionScan => /\ items' = items
                     /\ inventory' = inventory
                     /\ item_types' = item_types]_vars

C16_Witness ==
    /\ tick.called
    /\ Len(items) = MaxItems
    /\ Len(item_types.v) > 0
    /\ config.enable_false_negatives
    /\ config.enable_false_positives
    /\ config.ghost_positive_probability > 0

\* C19: with false-negative simulation enabled, a seen Item gives no
\* detection when the first draw is below the false-negative probability,
\* and else exactly one: a copy with the Item's origin and orientation and
\* a label drawn from the known labels when false positives are enabled
\* and the second draw is below the ghost probability, the Item itself in
\* every other case.
C19_SeenItemYieldsOneDetection ==
    (scanIn.called /\ scanIn.seen /\ config.enable_false_negatives)
        => /\ scanOut.exc = "none"
           /\ IF scanIn.r1 < config.false_negative_probability
              THEN scanOut.out = <<>>
              ELSE IF /\ config.enable_false_positives
                      /\ scanIn.r2 < config.ghost_positive_probability
              THEN /\ Len(scanOut.out) = 1
                   /\ scanOut.out[1].origin = scanIn.item.origin
                   /\ scanOut.out[1].orientation = scanIn.item.orientation
                   /\ scanOut.out[1].label \in Labels(item_types)
              ELSE scanOut.out = <<scanIn.item>>

----------------------------------------------------------------------------
(* Claims about Litterbug.__ghost_positives (SpecGhost) *)

\* C17: an attempt-cycle samples at most 25 positions: after the 25th
\* sample without line of sight it gives up, and no further position is
\* sampled.
C17_AttemptCycleBounded ==
    ghost.samples <= MaxAttempts

\* C18: the generator goes on to fabricate a detection exactly when the
\* draw is below the mislabel probability; a draw at or above it ends the
\* generation.
C18_AttemptIffDrawBelowMislabel ==
    ghost.drawn
        => (ghost.attempted <=> ghost.r < config.mislabel_probability)

----------------------------------------------------------------------------
(* Claims about the running tick (SpecRun) *)

KeysOf(registry) == { registry[i].key : i \in 1 .. Len(registry) }

\* C15: all detections of a tick are computed from one snapshot of the
\* pose and one snapshot of the registry taken at the start of the tick:
\* every pose the tick reads is the same, every element it scans was in
\* the registry when the tick read it, and a change of the registry during
\* the tick does not make the tick fail.
C15_OneSnapshotPerTick ==
    frame.called
        => /\ \A i \in 1 .. Len(frame.poses) : frame.poses[i] = frame.poses[1]
           /\ \A i \in 1 .. Len(frame.scanned) :
                  frame.scanned[i].v \in KeysOf(frame.registry)
           /\ frame.exc # "RuntimeError"

\* C20: a tick the timer schedules while a vision_scan is running is
\* dropped: no vision_scan is started for it, neither beside the running
\* one nor after it.
C20_OverrunTickDropped ==
    frame.called => ~frame.late

----------------------------------------------------------------------------
(* Claims about the pose (SpecPose) *)

----------------------------------------------------------------------------
(* Claims about LitterbugConfig.__merge_setting (SpecMerge) *)

\* the exceptions the rules of the merge give a user configuration, at
\* every nesting depth
RECURSIVE MergeErrors(_, _)
MergeErrors(base, incoming) ==
    (IF \E k \in DOMAIN incoming : k \notin DOMAIN base
     THEN {"UnknownConfigKey"} ELSE {})
    \cup
    (IF \E k \in DOMAIN incoming \cap DOMAIN base : base[k].t # incoming[k].t
     THEN {"ConfigTypeError"} ELSE {})
    \cup
    UNION { MergeErrors(base[k].d, incoming[k].d) :
              k \in { j \in DOMAIN incoming \cap DOMAIN base :
                          base[j].t = "dict" /\ incoming[j].t = "dict" } }

\* the merged configuration the rules give
RECURSIVE Merged(_, _)
Merged(base, incoming) ==
    [k \in DOMAIN base |->
        IF k \notin DOMAIN incoming THEN base[k]
        ELSE IF base[k].t = "dict"
        THEN PyDict(Merged(base[k].d, incoming[k].d))
        ELSE incoming[k]]

\* C22: merging a user configuration into the defaults raises
\* UnknownConfigKey for a key the defaults do not have and ConfigTypeError
\* for a value of another type than the default, at every nesting depth;
\* otherwise it returns the defaults overridden by the user's values,
\* nested dicts merged by the same rules.
C22_MergeFollowsRules ==
    mergeIn.called
        => IF MergeErrors(Defaults, mergeIn.incoming) = {}
           THEN /\ mergeOut.exc = "none"
                /\ mergeOut.val = PyDict(Merged(Defaults, mergeIn.incoming))
           ELSE mergeOut.exc \in MergeErrors(Defaults, mergeIn.incoming)

----------------------------------------------------------------------------
(* Claims about the extent of the Map (SpecMap) *)

\* the metric point lies within the mapped extent
InExtent(m, p) ==
    /\ m.origin[1] <= p[1]
    /\ p[1] < m.origin[1] + m.map.shape[2] * m.resolution
    /\ m.origin[2] <= p[2]
    /\ p[2] < m.origin[2] + m.map.shape[1] * m.resolution

\* C23: the conversion of a metric point within the mapped extent gives a
\* cell inside the grid, and a line_of_sight query between two such points
\* indexes cells of the grid only and so does not raise.
C23_InExtentCellInGrid ==
    (losArgs.called /\ InExtent(map, losArgs.origin)
                    /\ InExtent(map, losArgs.target))
        => LET px == meter_to_pixel_coordinates(map, losArgs.origin)
           IN  /\ px.exc = "none"
               /\ InGrid(map, <<px.col, px.row>>)
               /\ losResult.exc = "none"

====
